---- MODULE Spec2Model ----
(***************************************************************************)
(* State-machine model of the checkout screen (OrderScreen) and of the     *)
(* profile screen (ProfileScreen) of src/ConfirmOderScreen.js, together    *)
(* with the remote user record, the orders collection and the payment-link *)
(* endpoint they talk to.                                                  *)
(*                                                                         *)
(* Every async handler is split at its awaits: the part before the first   *)
(* await is the action named after the handler, each continuation is one   *)
(* action named after the remote call it resumes from.  A handler is a     *)
(* closure of the render in which the button was pressed, so the state it  *)
(* reads after an await is the state captured at the press; the captured   *)
(* values travel in the task record.                                       *)
(***************************************************************************)
EXTENDS Integers, Sequences, FiniteSets, TLC

\* ------------------------------------------------------------------ bounds
MaxOps == 2            \* handler invocations that reach the remote store, per run
MaxClock == 4          \* largest value Date.now() is followed to
MaxQty == 2            \* largest quantity of a cart item
MaxPoints == 6         \* largest balance the user record starts with

\* ------------------------------------------------------- program constants
PointsPerPeso == 5000  \* Math.floor(totalPrice / 5000), purchaseAmount >= 5000
RedeemCost == 5        \* points < 5, points - 5
PurchaseAmount == 5000 \* handlePurchasePoints(5000)
CentsPerPeso == 100    \* toFixed(2): two decimals

Sessions == {1, 2}     \* two signed-in sessions of the same account
TaskIds == 1 .. MaxOps
Null == "null"
Texts == {"x", "y"}    \* address texts typed into the form
Names == {"u", "v"}    \* display names

COD == "Cash on Delivery"
EWallet == "E-Wallet (Gcash)"
PointsMethod == "Points"
Methods == {COD, EWallet, PointsMethod}

\* ---------------------------------------------------------- JS numbers
\* A JS number that is either NaN or an amount with two decimals, kept in
\* centavos.
NaN == [nan |-> TRUE, cents |-> 0]
Num(c) == [nan |-> FALSE, cents |-> c]

\* The static catalog (./data): product id -> price string.  A price string
\* is its currency prefix and its amount in centavos: "Php100.00" is
\* ("Php", 10000), "Php2500.00" is ("Php", 250000), and the plain numeric
\* string "2500.00" is ("", 250000).
products ==
  << [id |-> 1, price |-> [prefix |-> "Php", cents |-> 10000]],
     [id |-> 2, price |-> [prefix |-> "", cents |-> 250000]],
     [id |-> 3, price |-> [prefix |-> "Php", cents |-> 250000]] >>

CatalogIds == {products[i].id : i \in 1 .. Len(products)}
ProductIds == CatalogIds \cup {Len(products) + 1}   \* and an id of no entry

\* {}: every field undefined
Undefined == [prefix |-> "undefined", cents |-> 0]
NoProduct == [id |-> 0, price |-> Undefined]

getProductById(id) ==
  IF \E i \in 1 .. Len(products) : products[i].id = id
  THEN products[CHOOSE i \in 1 .. Len(products) : products[i].id = id]
  ELSE NoProduct

\* ToNumber of a price string as the * operator applies it: a string with a
\* non-numeric prefix, or undefined, is NaN.
ToNumber(price) ==
  IF price = Undefined THEN NaN
  ELSE IF price.prefix # "" THEN NaN
  ELSE Num(price.cents)

Times(a, n) == IF a.nan THEN NaN ELSE Num(a.cents * n)
Plus(a, b) == IF a.nan \/ b.nan THEN NaN ELSE Num(a.cents + b.cents)

\* Number.prototype.toFixed(2): the string "NaN", or the digits before and
\* after the decimal point ("200.00" is whole 200, frac 0).
NaNString == [text |-> "NaN", whole |-> 0, frac |-> 0]
Fixed(c) == [text |-> "fixed", whole |-> c \div CentsPerPeso, frac |-> c % CentsPerPeso]
toFixed2(a) == IF a.nan THEN NaNString ELSE Fixed(a.cents)
\* parseFloat of a toFixed(2) string
parseFloat(str) ==
  IF str.text = "NaN" THEN NaN ELSE Num(str.whole * CentsPerPeso + str.frac)

RECURSIVE reduceTotal(_, _)
reduceTotal(cart, acc) ==
  IF cart = << >> THEN acc
  ELSE reduceTotal(Tail(cart),
                   Plus(acc, Times(ToNumber(getProductById(Head(cart).id).price),
                                   Head(cart).quantity)))

calculateTotalPrice(cart) == toFixed2(reduceTotal(cart, Num(0)))

\* Math.floor(totalPrice / 5000)
PointsToAdd(totalPrice) ==
  IF totalPrice.nan THEN NaN
  ELSE Num((totalPrice.cents \div (PointsPerPeso * CentsPerPeso)) * CentsPerPeso)

\* the integer a whole-valued JS number stands for
Whole(a) == a.cents \div CentsPerPeso

\* pointsToAdd > 0 (false for NaN)
IsPositive(a) == ~a.nan /\ a.cents > 0

\* ------------------------------------------------------------------ state
VARIABLES
  \* remote store
  dbExists,        \* the user record exists
  dbDisplayName,   \* its displayName field ("" when absent)
  dbAddresses,     \* its addresses field
  dbPoints,        \* its points field
  orders,          \* the orders collection
  payRequests,     \* payment-link requests sent
  now,             \* Date.now()
  \* OrderScreen, per session
  addresses, selectedAddress, newAddress, step, deliveryMethod, loading,
  showAddAddress, editAddressId,
  cartItems,       \* CartContext
  prompt,          \* the open Alert with buttons
  alert,           \* the Alert the last step has shown
  fetchPc,         \* fetchAddresses of the mount effect
  navigated,       \* navigation.navigate('HomeScreen') happened
  \* ProfileScreen, per session
  points, displayName, isEditing, profLoading,
  \* handlers in flight
  tasks

dbVars == <<dbExists, dbDisplayName, dbAddresses, dbPoints, orders, payRequests>>
addrUi == <<addresses, selectedAddress, newAddress, showAddAddress, editAddressId>>
flowUi == <<step, deliveryMethod, loading, cartItems, prompt, navigated>>
profUi == <<points, displayName, isEditing, profLoading>>
vars == <<dbVars, now, addrUi, flowUi, profUi, alert, fetchPc, tasks>>

\* ------------------------------------------------------------------ helpers
\* tasks[k] is the k-th invocation: not started yet, in flight, or settled
Free == [kind |-> "free"]
Done == [kind |-> "done"]
FreeSlots == {t \in TaskIds : tasks[t].kind = "free"}
NewSlot == CHOOSE t \in FreeSlots : \A u \in FreeSlots : t <= u
InFlight(kind) == {t \in TaskIds : tasks[t].kind = kind}

\* Alert.alert(title, ...) shown on session s by handler op; an exception no
\* handler catches is recorded the same way, under its name
Shown(title, s, op) == [title |-> title, s |-> s, op |-> op]
NoAlert == Shown("none", 0, "none")
NoPrompt == [name |-> "none"]

Ids(list) == {list[i].id : i \in 1 .. Len(list)}
Distinct(list) == \A i, j \in 1 .. Len(list) : i # j => list[i].id # list[j].id

\* Array.prototype.filter
RECURSIVE Filter(_, _)
Filter(list, id) ==
  IF list = << >> THEN << >>
  ELSE IF Head(list).id = id THEN Filter(Tail(list), id)
  ELSE <<Head(list)>> \o Filter(Tail(list), id)

\* existingAddresses.map(addr => addr.id === editAddressId ? {...} : addr)
MapEdit(list, id, text) ==
  [i \in 1 .. Len(list) |->
     IF list[i].id = id THEN [id |-> id, address |-> text] ELSE list[i]]

\* userDocSnap.data()?.addresses || []
ReadAddresses == IF dbExists THEN dbAddresses ELSE << >>

\* addresses.find(addr => addr.id === selectedAddress)?.address
FindAddress(list, id) ==
  IF \E i \in 1 .. Len(list) : list[i].id = id
  THEN list[CHOOSE i \in 1 .. Len(list) : list[i].id = id
                 /\ \A j \in 1 .. (i - 1) : list[j].id # id].address
  ELSE "undefined"

\* setPoints(userData.points || 0) of the onSnapshot handler, called by the
\* store client of session s with the write the session has just issued,
\* and with the stored value again when that write is rejected
LocalWrite(s, newPoints) == [points EXCEPT ![s] = newPoints]

\* ------------------------------------------------------------------ Init
AddrA == [id |-> "1", address |-> "x"]
AddrB == [id |-> "2", address |-> "y"]
InitAddressLists == {<< >>, <<AddrA>>, <<AddrA, AddrB>>}
FirstClock == 3        \* the first Date.now() read, later than the stored ids

Carts ==
  {<< >>} \cup
  {<<[id |-> i, quantity |-> q]>> : i \in ProductIds, q \in 1 .. MaxQty}

InitBase ==
  /\ orders = {}
  /\ payRequests = 0
  /\ now = FirstClock
  /\ addresses = [s \in Sessions |-> << >>]
  /\ selectedAddress = [s \in Sessions |-> Null]
  /\ newAddress = [s \in Sessions |-> ""]
  /\ step = [s \in Sessions |-> 1]
  /\ deliveryMethod = [s \in Sessions |-> COD]
  /\ loading = [s \in Sessions |-> FALSE]
  /\ showAddAddress = [s \in Sessions |-> FALSE]
  /\ editAddressId = [s \in Sessions |-> Null]
  /\ prompt = [s \in Sessions |-> NoPrompt]
  /\ alert = NoAlert
  /\ fetchPc = [s \in Sessions |-> "getDoc"]
  /\ navigated = [s \in Sessions |-> FALSE]
  /\ points = [s \in Sessions |-> 0]
  /\ displayName = [s \in Sessions |-> ""]
  /\ isEditing = [s \in Sessions |-> FALSE]
  /\ profLoading = [s \in Sessions |-> FALSE]
  /\ tasks = [t \in TaskIds |-> Free]

\* ------------------------------------------------- OrderScreen: addresses
\* fetchAddresses, resumed from getDoc
FetchAddresses(s) ==
  /\ fetchPc[s] = "getDoc"
  /\ fetchPc' = [fetchPc EXCEPT ![s] = "done"]
  /\ \E ok \in BOOLEAN :
       IF ~ok
       THEN /\ alert' = Shown("Error", s, "FetchAddresses")
            /\ UNCHANGED addrUi
       ELSE IF dbExists
       THEN /\ addresses' = [addresses EXCEPT ![s] = dbAddresses]
            /\ IF Len(dbAddresses) > 0
               THEN /\ selectedAddress' =
                         [selectedAddress EXCEPT ![s] = dbAddresses[1].id]
                    /\ alert' = NoAlert
               ELSE /\ alert' = Shown("No Document", s, "FetchAddresses")
                    /\ UNCHANGED selectedAddress
            /\ UNCHANGED <<newAddress, showAddAddress, editAddressId>>
       ELSE /\ alert' = Shown("No Document", s, "FetchAddresses")
            /\ UNCHANGED addrUi
  /\ UNCHANGED <<dbVars, now, flowUi, profUi, tasks>>

\* onPress={() => setSelectedAddress(item.id)}
SelectAddress(s) ==
  /\ step[s] = 1 /\ ~navigated[s]
  /\ \E i \in 1 .. Len(addresses[s]) :
       selectedAddress' = [selectedAddress EXCEPT ![s] = addresses[s][i].id]
  /\ UNCHANGED <<dbVars, now, addresses, newAddress, showAddAddress,
                 editAddressId, flowUi, profUi, fetchPc, tasks>>
  /\ alert' = NoAlert

\* handleEditAddress(item)
handleEditAddress(s) ==
  /\ step[s] = 1 /\ ~navigated[s]
  /\ \E i \in 1 .. Len(addresses[s]) :
       /\ editAddressId' = [editAddressId EXCEPT ![s] = addresses[s][i].id]
       /\ newAddress' = [newAddress EXCEPT ![s] = addresses[s][i].address]
  /\ showAddAddress' = [showAddAddress EXCEPT ![s] = TRUE]
  /\ UNCHANGED <<dbVars, now, addresses, selectedAddress, flowUi, profUi,
                 fetchPc, tasks>>
  /\ alert' = NoAlert

\* "+ Add Address": setShowAddAddress(true)
ShowAddAddress(s) ==
  /\ step[s] = 1 /\ ~navigated[s]
  /\ showAddAddress' = [showAddAddress EXCEPT ![s] = TRUE]
  /\ UNCHANGED <<dbVars, now, addresses, selectedAddress, newAddress,
                 editAddressId, flowUi, profUi, fetchPc, tasks>>
  /\ alert' = NoAlert

\* "Cancel": setShowAddAddress(false)
CancelAddAddress(s) ==
  /\ step[s] = 1 /\ ~navigated[s] /\ showAddAddress[s]
  /\ showAddAddress' = [showAddAddress EXCEPT ![s] = FALSE]
  /\ UNCHANGED <<dbVars, now, addresses, selectedAddress, newAddress,
                 editAddressId, flowUi, profUi, fetchPc, tasks>>
  /\ alert' = NoAlert

\* onChangeText={setNewAddress}
ChangeAddressText(s) ==
  /\ step[s] = 1 /\ ~navigated[s] /\ showAddAddress[s]
  /\ \E txt \in Texts \cup {""} :
       /\ txt # newAddress[s]
       /\ newAddress' = [newAddress EXCEPT ![s] = txt]
  /\ UNCHANGED <<dbVars, now, addresses, selectedAddress, showAddAddress,
                 editAddressId, flowUi, profUi, fetchPc, tasks>>
  /\ alert' = NoAlert

\* handleAddAddress up to its getDoc
handleAddAddress(s) ==
  /\ step[s] = 1 /\ ~navigated[s] /\ showAddAddress[s]
  /\ IF newAddress[s] = ""
     THEN /\ alert' = Shown("Address Required", s, "handleAddAddress")
          /\ UNCHANGED tasks
     ELSE /\ FreeSlots # {}
          /\ tasks' = [tasks EXCEPT ![NewSlot] =
               [kind |-> "add", s |-> s, pc |-> "getDoc",
                newAddress |-> newAddress[s],
                editAddressId |-> editAddressId[s],
                updated |-> << >>]]
          /\ alert' = NoAlert
  /\ UNCHANGED <<dbVars, now, addrUi, flowUi, profUi, fetchPc>>

\* the list handleAddAddress writes, from the list it has read; a new entry
\* has the id Date.now().toString()
AddedList(existing, editId, text, clock) ==
  IF editId # Null
  THEN MapEdit(existing, editId, text)
  ELSE existing \o <<[id |-> ToString(clock), address |-> text]>>

\* handleAddAddress resumed from getDoc: builds the list (a new entry takes
\* Date.now() as its id) and calls updateDoc
AddGetDoc(t) ==
  /\ tasks[t].kind = "add" /\ tasks[t].pc = "getDoc"
  /\ \E ok \in BOOLEAN :
       IF ok
       THEN /\ tasks' = [tasks EXCEPT ![t].pc = "updateDoc",
                 ![t].updated = AddedList(ReadAddresses, tasks[t].editAddressId,
                                          tasks[t].newAddress, now)]
            /\ alert' = NoAlert
       ELSE /\ tasks' = [tasks EXCEPT ![t] = Done]
            /\ alert' = Shown("Error", tasks[t].s, "AddGetDoc")
  /\ UNCHANGED <<dbVars, now, addrUi, flowUi, profUi, fetchPc>>

\* the write as an atomic append (arrayUnion) of the new entry to the list
\* stored at the time of the write
AddUpdateDocMut(t) ==
  /\ tasks[t].kind = "add" /\ tasks[t].pc = "updateDoc"
  /\ tasks' = [tasks EXCEPT ![t] = Done]
  /\ LET s == tasks[t].s
         merged == IF tasks[t].editAddressId # Null
                   THEN MapEdit(dbAddresses, tasks[t].editAddressId,
                                tasks[t].newAddress)
                   ELSE dbAddresses
                          \o <<tasks[t].updated[Len(tasks[t].updated)]>>
     IN
     \E ok \in BOOLEAN :
       IF ok /\ dbExists
       THEN /\ dbAddresses' = merged
            /\ addresses' = [addresses EXCEPT ![s] = merged]
            /\ IF tasks[t].editAddressId # Null
               THEN /\ editAddressId' = [editAddressId EXCEPT ![s] = Null]
                    /\ alert' = Shown("Address Updated", s, "AddUpdateDoc")
               ELSE /\ alert' = Shown("Address Added", s, "AddUpdateDoc")
                    /\ UNCHANGED editAddressId
            /\ newAddress' = [newAddress EXCEPT ![s] = ""]
            /\ showAddAddress' = [showAddAddress EXCEPT ![s] = FALSE]
            /\ UNCHANGED selectedAddress
       ELSE /\ alert' = Shown("Error", s, "AddUpdateDoc")
            /\ UNCHANGED <<dbAddresses, addrUi>>
  /\ UNCHANGED <<dbExists, dbDisplayName, dbPoints, orders, payRequests, now,
                 flowUi, profUi, fetchPc>>

\* handleAddAddress resumed from updateDoc (updateDoc fails on a missing
\* record)
AddUpdateDoc(t) ==
  /\ tasks[t].kind = "add" /\ tasks[t].pc = "updateDoc"
  /\ tasks' = [tasks EXCEPT ![t] = Done]
  /\ LET s == tasks[t].s IN
     \E ok \in BOOLEAN :
       IF ok /\ dbExists
       THEN /\ dbAddresses' = tasks[t].updated
            /\ addresses' = [addresses EXCEPT ![s] = tasks[t].updated]
            /\ IF tasks[t].editAddressId # Null
               THEN /\ editAddressId' = [editAddressId EXCEPT ![s] = Null]
                    /\ alert' = Shown("Address Updated", s, "AddUpdateDoc")
               ELSE /\ alert' = Shown("Address Added", s, "AddUpdateDoc")
                    /\ UNCHANGED editAddressId
            /\ newAddress' = [newAddress EXCEPT ![s] = ""]
            /\ showAddAddress' = [showAddAddress EXCEPT ![s] = FALSE]
            /\ UNCHANGED selectedAddress
       ELSE /\ alert' = Shown("Error", s, "AddUpdateDoc")
            /\ UNCHANGED <<dbAddresses, addrUi>>
  /\ UNCHANGED <<dbExists, dbDisplayName, dbPoints, orders, payRequests, now,
                 flowUi, profUi, fetchPc>>

\* handleRemoveAddress(item.id) up to its getDoc
handleRemoveAddress(s) ==
  /\ step[s] = 1 /\ ~navigated[s]
  /\ FreeSlots # {}
  /\ \E i \in 1 .. Len(addresses[s]) :
       tasks' = [tasks EXCEPT ![NewSlot] =
         [kind |-> "remove", s |-> s, pc |-> "getDoc",
          addressId |-> addresses[s][i].id,
          selectedAddress |-> selectedAddress[s],
          updated |-> << >>]]
  /\ UNCHANGED <<dbVars, now, addrUi, flowUi, profUi, fetchPc>>
  /\ alert' = NoAlert

\* handleRemoveAddress resumed from getDoc
RemoveGetDoc(t) ==
  /\ tasks[t].kind = "remove" /\ tasks[t].pc = "getDoc"
  /\ \E ok \in BOOLEAN :
       IF ok
       THEN /\ tasks' = [tasks EXCEPT ![t].pc = "updateDoc",
                 ![t].updated = Filter(ReadAddresses, tasks[t].addressId)]
            /\ alert' = NoAlert
       ELSE /\ tasks' = [tasks EXCEPT ![t] = Done]
            /\ alert' = Shown("Error", tasks[t].s, "RemoveGetDoc")
  /\ UNCHANGED <<dbVars, now, addrUi, flowUi, profUi, fetchPc>>

\* the selection after a successful removal: cleared when the selection the
\* handler captured at the press is the removed id
SelectionAfterRemove(current, captured, addressId) ==
  IF captured = addressId THEN Null ELSE current

\* handleRemoveAddress resumed from updateDoc
RemoveUpdateDoc(t) ==
  /\ tasks[t].kind = "remove" /\ tasks[t].pc = "updateDoc"
  /\ tasks' = [tasks EXCEPT ![t] = Done]
  /\ LET s == tasks[t].s IN
     \E ok \in BOOLEAN :
       IF ok /\ dbExists
       THEN /\ dbAddresses' = tasks[t].updated
            /\ addresses' = [addresses EXCEPT ![s] = tasks[t].updated]
            /\ selectedAddress' = [selectedAddress EXCEPT ![s] =
                 SelectionAfterRemove(selectedAddress[s],
                                      tasks[t].selectedAddress,
                                      tasks[t].addressId)]
            /\ alert' = Shown("Address Removed", s, "RemoveUpdateDoc")
            /\ UNCHANGED <<newAddress, showAddAddress, editAddressId>>
       ELSE /\ alert' = Shown("Error", s, "RemoveUpdateDoc")
            /\ UNCHANGED <<dbAddresses, addrUi>>
  /\ UNCHANGED <<dbExists, dbDisplayName, dbPoints, orders, payRequests, now,
                 flowUi, profUi, fetchPc>>

\* Date.now() advances
Tick ==
  /\ now < MaxClock
  /\ now' = now + 1
  /\ UNCHANGED <<dbVars, addrUi, flowUi, profUi, fetchPc, tasks>>
  /\ alert' = NoAlert

\* the button calling setStep(3)
DeliverSkipsMut(s) ==
  /\ step[s] = 1 /\ ~navigated[s]
  /\ selectedAddress[s] \in Ids(addresses[s])
  /\ step' = [step EXCEPT ![s] = 3]
  /\ UNCHANGED <<dbVars, now, addrUi, deliveryMethod, loading, cartItems,
                 prompt, navigated, profUi, fetchPc, tasks>>
  /\ alert' = NoAlert

\* the button rendered on every entry of the list, selected or not
DeliverAlwaysMut(s) ==
  /\ step[s] = 1 /\ ~navigated[s]
  /\ addresses[s] # << >>
  /\ step' = [step EXCEPT ![s] = 2]
  /\ UNCHANGED <<dbVars, now, addrUi, deliveryMethod, loading, cartItems,
                 prompt, navigated, profUi, fetchPc, tasks>>
  /\ alert' = NoAlert

\* "Deliver to this address", rendered on the selected entry of the list
DeliverToThisAddress(s) ==
  /\ step[s] = 1 /\ ~navigated[s]
  /\ selectedAddress[s] \in Ids(addresses[s])
  /\ step' = [step EXCEPT ![s] = 2]
  /\ UNCHANGED <<dbVars, now, addrUi, deliveryMethod, loading, cartItems,
                 prompt, navigated, profUi, fetchPc, tasks>>
  /\ alert' = NoAlert

\* --------------------------------------------------------- address flow
InitAddress ==
  /\ InitBase
  /\ dbExists = TRUE
  /\ dbDisplayName = "u"
  /\ dbPoints = 0
  /\ dbAddresses \in InitAddressLists
  /\ cartItems = [s \in Sessions |-> << >>]

\* the Address step of one session, every control of it
NextAddress ==
  \/ Tick
  \/ \E s \in {1} :
       \/ FetchAddresses(s)
       \/ SelectAddress(s)
       \/ handleEditAddress(s)
       \/ ShowAddAddress(s)
       \/ CancelAddAddress(s)
       \/ ChangeAddressText(s)
       \/ handleAddAddress(s)
       \/ handleRemoveAddress(s)
       \/ DeliverToThisAddress(s)
  \/ \E t \in TaskIds :
       \/ AddGetDoc(t)
       \/ AddUpdateDoc(t)
       \/ RemoveGetDoc(t)
       \/ RemoveUpdateDoc(t)

SpecAddress == InitAddress /\ [][NextAddress]_vars

\* two sessions of the account adding and removing addresses
NextShared ==
  \/ Tick
  \/ \E s \in Sessions :
       \/ FetchAddresses(s)
       \/ ShowAddAddress(s)
       \/ ChangeAddressText(s)
       \/ handleAddAddress(s)
       \/ handleRemoveAddress(s)
  \/ \E t \in TaskIds :
       \/ AddGetDoc(t)
       \/ AddUpdateDoc(t)
       \/ RemoveGetDoc(t)
       \/ RemoveUpdateDoc(t)

SpecShared == InitAddress /\ [][NextShared]_vars

\* session s has an add or a removal in flight
AddressBusy(s) ==
  \E t \in TaskIds : tasks[t].kind \in {"add", "remove"} /\ tasks[t].s = s

\* two sessions of the account changing the address list, each with one
\* operation in flight at a time: both add, session 2 also loads the list
\* and removes
NextLost ==
  \/ Tick
  \/ \E s \in Sessions :
       \/ ShowAddAddress(s)
       \/ ChangeAddressText(s)
       \/ ~AddressBusy(s) /\ handleAddAddress(s)
  \/ \E s \in {2} :
       \/ FetchAddresses(s)
       \/ ~AddressBusy(s) /\ handleRemoveAddress(s)
  \/ \E t \in TaskIds :
       \/ AddGetDoc(t)
       \/ AddUpdateDoc(t)
       \/ RemoveGetDoc(t)
       \/ RemoveUpdateDoc(t)

SpecLost == InitAddress /\ [][NextLost]_vars

\* ------------------------------------------------ OrderScreen: the flow
\* onPress={() => setDeliveryMethod(...)}
SetDeliveryMethod(s) ==
  /\ step[s] = 2 /\ ~navigated[s] /\ prompt[s].name = "none"
  /\ \E m \in Methods :
       /\ m # deliveryMethod[s]
       /\ deliveryMethod' = [deliveryMethod EXCEPT ![s] = m]
  /\ alert' = NoAlert
  /\ UNCHANGED <<dbVars, now, addrUi, step, loading, cartItems, prompt,
                 navigated, profUi, fetchPc, tasks>>

\* the Next button of the Delivery step
NextButton(s) ==
  /\ step[s] = 2 /\ ~navigated[s] /\ prompt[s].name = "none"
  /\ IF deliveryMethod[s] = EWallet
     THEN /\ prompt' = [prompt EXCEPT ![s] = [name |-> "Confirm Payment"]]
          /\ UNCHANGED step
     ELSE /\ step' = [step EXCEPT ![s] = 3]
          /\ UNCHANGED prompt
  /\ alert' = NoAlert
  /\ UNCHANGED <<dbVars, now, addrUi, deliveryMethod, loading, cartItems,
                 navigated, profUi, fetchPc, tasks>>

\* "Cancel" of the Confirm Payment prompt
ConfirmPaymentCancel(s) ==
  /\ prompt[s].name = "Confirm Payment"
  /\ prompt' = [prompt EXCEPT ![s] = NoPrompt]
  /\ alert' = NoAlert
  /\ UNCHANGED <<dbVars, now, addrUi, step, deliveryMethod, loading,
                 cartItems, navigated, profUi, fetchPc, tasks>>

\* "Yes" of the Confirm Payment prompt: btoa(`${secretKey}:`) reads a name
\* that is declared nowhere in the handler's scope, so the handler ends on
\* a ReferenceError before its fetch
ConfirmPaymentYes(s) ==
  /\ prompt[s].name = "Confirm Payment"
  /\ prompt' = [prompt EXCEPT ![s] = NoPrompt]
  /\ alert' = Shown("ReferenceError", s, "ConfirmPaymentYes")
  /\ UNCHANGED <<dbVars, now, addrUi, step, deliveryMethod, loading,
                 cartItems, navigated, profUi, fetchPc, tasks>>

\* !selectedAddress
AddressMissing(selected) == selected = Null

\* the empty-cart test left out
CartEmptyMut(cart) == FALSE

\* cartItems.length === 0
CartEmpty(cart) == Len(cart) = 0

\* handlePlaceOrder up to its prompt; the OK handler is a closure of this
\* render
handlePlaceOrder(s) ==
  /\ step[s] = 3 /\ ~navigated[s] /\ prompt[s].name = "none"
  /\ IF AddressMissing(selectedAddress[s])
     THEN /\ alert' = Shown("Address Missing", s, "handlePlaceOrder")
          /\ UNCHANGED prompt
     ELSE IF CartEmpty(cartItems[s])
     THEN /\ alert' = Shown("Cart Empty", s, "handlePlaceOrder")
          /\ UNCHANGED prompt
     ELSE /\ prompt' = [prompt EXCEPT ![s] =
               [name |-> "Confirm Order",
                cartItems |-> cartItems[s],
                deliveryMethod |-> deliveryMethod[s],
                addresses |-> addresses[s],
                selectedAddress |-> selectedAddress[s]]]
          /\ alert' = NoAlert
  /\ UNCHANGED <<dbVars, now, addrUi, step, deliveryMethod, loading,
                 cartItems, navigated, profUi, fetchPc, tasks>>

\* "Cancel" of the Confirm Order prompt
ConfirmOrderCancel(s) ==
  /\ prompt[s].name = "Confirm Order"
  /\ prompt' = [prompt EXCEPT ![s] = NoPrompt]
  /\ alert' = NoAlert
  /\ UNCHANGED <<dbVars, now, addrUi, step, deliveryMethod, loading,
                 cartItems, navigated, profUi, fetchPc, tasks>>

\* "OK" of the Confirm Order prompt, up to its getDoc
ConfirmOrderOK(s) ==
  /\ prompt[s].name = "Confirm Order"
  /\ FreeSlots # {}
  /\ prompt' = [prompt EXCEPT ![s] = NoPrompt]
  /\ loading' = [loading EXCEPT ![s] = TRUE]
  /\ tasks' = [tasks EXCEPT ![NewSlot] =
       [kind |-> "place", s |-> s, pc |-> "getUser",
        cartItems |-> prompt[s].cartItems,
        deliveryMethod |-> prompt[s].deliveryMethod,
        addresses |-> prompt[s].addresses,
        selectedAddress |-> prompt[s].selectedAddress,
        userName |-> "", pointsToAdd |-> NaN, currentPoints |-> 0]]
  /\ alert' = NoAlert
  /\ UNCHANGED <<dbVars, now, addrUi, step, deliveryMethod, cartItems,
                 navigated, profUi, fetchPc>>

\* the catch blocks without their setLoading(false)
PlaceFailedMut(t, op) ==
  /\ tasks' = [tasks EXCEPT ![t] = Done]
  /\ alert' = Shown("Error", tasks[t].s, op)
  /\ UNCHANGED <<loading, cartItems, navigated, payRequests>>

\* the catch blocks of the OK handler: Alert 'Error', setLoading(false)
PlaceFailed(t, op) ==
  /\ tasks' = [tasks EXCEPT ![t] = Done]
  /\ alert' = Shown("Error", tasks[t].s, op)
  /\ loading' = [loading EXCEPT ![tasks[t].s] = FALSE]
  /\ UNCHANGED <<cartItems, navigated, payRequests>>

\* the end of the try block: the payment-link fetch is sent, reading the
\* undeclared name response raises a ReferenceError the inner catch turns
\* into the Alert 'Payment Error', then Alert 'Order Successful',
\* clearCart(), setLoading(false), navigate('HomeScreen')
PlaceSucceeded(t, op) ==
  /\ tasks' = [tasks EXCEPT ![t] = Done]
  /\ payRequests' = payRequests + 1
  /\ alert' = Shown("Order Successful", tasks[t].s, op)
  /\ cartItems' = [cartItems EXCEPT ![tasks[t].s] = << >>]
  /\ loading' = [loading EXCEPT ![tasks[t].s] = FALSE]
  /\ navigated' = [navigated EXCEPT ![tasks[t].s] = TRUE]
  /\ UNCHANGED points

\* orderDetails
OrderDetails(t, userName) ==
  [id |-> t,
   items |-> tasks[t].cartItems,
   total |-> calculateTotalPrice(tasks[t].cartItems),
   delivery |-> tasks[t].deliveryMethod,
   address |-> FindAddress(tasks[t].addresses, tasks[t].selectedAddress),
   userName |-> userName,
   status |-> "Pending"]

\* the lookup accepting a record without a display name
UserNameFoundMut(exists, name) == exists

\* userSnap.exists() and a truthy displayName
UserNameFound(exists, name) == exists /\ name # ""

\* the OK handler resumed from the getDoc of the user record
PlaceGetUser(t) ==
  /\ tasks[t].kind = "place" /\ tasks[t].pc = "getUser"
  /\ \E ok \in BOOLEAN :
       IF ok /\ UserNameFound(dbExists, dbDisplayName)
       THEN /\ tasks' = [tasks EXCEPT ![t].pc = "setDoc",
                                      ![t].userName = dbDisplayName]
            /\ alert' = NoAlert
            /\ UNCHANGED <<loading, cartItems, navigated, payRequests>>
       ELSE PlaceFailed(t, "PlaceGetUser")
  /\ UNCHANGED <<dbExists, dbDisplayName, dbAddresses, dbPoints, orders, now,
                 addrUi, step, deliveryMethod, prompt, profUi, fetchPc>>

\* the OK handler resumed from the setDoc of the order record
PlaceSetDoc(t) ==
  /\ tasks[t].kind = "place" /\ tasks[t].pc = "setDoc"
  /\ \E ok \in BOOLEAN :
       IF ok
       THEN /\ orders' = orders \cup {OrderDetails(t, tasks[t].userName)}
            /\ LET totalPrice == parseFloat(calculateTotalPrice(tasks[t].cartItems))
                   pointsToAdd == PointsToAdd(totalPrice)
               IN IF IsPositive(pointsToAdd)
                  THEN /\ tasks' = [tasks EXCEPT ![t].pc = "getPoints",
                                        ![t].pointsToAdd = pointsToAdd]
                       /\ alert' = NoAlert
                       /\ UNCHANGED <<loading, cartItems, navigated, payRequests>>
                  ELSE PlaceSucceeded(t, "PlaceSetDoc")
       ELSE /\ PlaceFailed(t, "PlaceSetDoc")
            /\ UNCHANGED orders
  /\ UNCHANGED <<dbExists, dbDisplayName, dbAddresses, dbPoints, now,
                 addrUi, step, deliveryMethod, prompt, profUi, fetchPc>>

\* the OK handler resumed from the getDoc of the points update
PlaceGetPoints(t) ==
  /\ tasks[t].kind = "place" /\ tasks[t].pc = "getPoints"
  /\ \E ok \in BOOLEAN :
       IF ~ok THEN PlaceFailed(t, "PlaceGetPoints") /\ UNCHANGED points
       ELSE IF dbExists
       THEN /\ tasks' = [tasks EXCEPT ![t].pc = "updatePoints",
                                      ![t].currentPoints = dbPoints]
            /\ points' = LocalWrite(tasks[t].s,
                                    dbPoints + Whole(tasks[t].pointsToAdd))
            /\ alert' = NoAlert
            /\ UNCHANGED <<loading, cartItems, navigated, payRequests>>
       ELSE PlaceSucceeded(t, "PlaceGetPoints")
  /\ UNCHANGED <<dbExists, dbDisplayName, dbAddresses, dbPoints, orders, now,
                 addrUi, step, deliveryMethod, prompt, displayName,
                 isEditing, profLoading, fetchPc>>

\* the OK handler resumed from the updateDoc of the points update
PlaceUpdatePoints(t) ==
  /\ tasks[t].kind = "place" /\ tasks[t].pc = "updatePoints"
  /\ \E ok \in BOOLEAN :
       IF ok /\ dbExists
       THEN /\ dbPoints' = tasks[t].currentPoints + Whole(tasks[t].pointsToAdd)
            /\ PlaceSucceeded(t, "PlaceUpdatePoints")
       ELSE /\ PlaceFailed(t, "PlaceUpdatePoints")
            /\ points' = LocalWrite(tasks[t].s, dbPoints)
            /\ UNCHANGED dbPoints
  /\ UNCHANGED <<dbExists, dbDisplayName, dbAddresses, orders, now,
                 addrUi, step, deliveryMethod, prompt, displayName,
                 isEditing, profLoading, fetchPc>>

\* ---------------------------------------------------------- ProfileScreen
\* session s has called updateDoc or setDoc on the user record and the call
\* has not settled
PendingWrite(s) ==
  \E t \in TaskIds :
    /\ tasks[t].kind \in {"purchase", "redeem", "save", "place"}
    /\ tasks[t].s = s
    /\ tasks[t].pc \in {"updateDoc", "setDoc-user", "updatePoints"}

\* the handler leaving the display name alone while the profile is edited
SnapshotMut(s) ==
  /\ dbExists
  /\ ~PendingWrite(s)
  /\ <<displayName[s], points[s]>> # <<dbDisplayName, dbPoints>>
  /\ displayName' = [displayName EXCEPT ![s] =
                       IF isEditing[s] THEN displayName[s] ELSE dbDisplayName]
  /\ points' = [points EXCEPT ![s] = dbPoints]
  /\ alert' = NoAlert
  /\ UNCHANGED <<dbVars, now, addrUi, flowUi, isEditing, profLoading,
                 fetchPc, tasks>>

\* the onSnapshot handler of the user record, called with the stored record.
\* The listener of a session with a pending write of its own has already
\* been called with that write (see LocalWrite) and is called with the
\* stored record once the write has settled.
Snapshot(s) ==
  /\ dbExists
  /\ ~PendingWrite(s)
  /\ <<displayName[s], points[s]>> # <<dbDisplayName, dbPoints>>
  /\ displayName' = [displayName EXCEPT ![s] = dbDisplayName]
  /\ points' = [points EXCEPT ![s] = dbPoints]
  /\ alert' = NoAlert
  /\ UNCHANGED <<dbVars, now, addrUi, flowUi, isEditing, profLoading,
                 fetchPc, tasks>>

\* "Edit Profile": setIsEditing(true)
EditProfile(s) ==
  /\ ~isEditing[s]
  /\ isEditing' = [isEditing EXCEPT ![s] = TRUE]
  /\ alert' = NoAlert
  /\ UNCHANGED <<dbVars, now, addrUi, flowUi, points, displayName,
                 profLoading, fetchPc, tasks>>

\* "Cancel": setIsEditing(false)
CancelEdit(s) ==
  /\ isEditing[s]
  /\ isEditing' = [isEditing EXCEPT ![s] = FALSE]
  /\ alert' = NoAlert
  /\ UNCHANGED <<dbVars, now, addrUi, flowUi, points, displayName,
                 profLoading, fetchPc, tasks>>

\* onChangeText={setDisplayName}, the input is disabled unless isEditing
ChangeDisplayName(s) ==
  /\ isEditing[s]
  /\ \E n \in Names \cup {""} :
       /\ n # displayName[s]
       /\ displayName' = [displayName EXCEPT ![s] = n]
  /\ alert' = NoAlert
  /\ UNCHANGED <<dbVars, now, addrUi, flowUi, points, isEditing,
                 profLoading, fetchPc, tasks>>

\* handleProfileUpdate up to its updateProfile (the photo is not a local
\* file); "Save Changes" is rendered while isEditing, disabled while loading; the
\* task also notes the stored balance at the time of the press, which no
\* step reads
handleProfileUpdate(s) ==
  /\ isEditing[s] /\ ~profLoading[s]
  /\ FreeSlots # {}
  /\ profLoading' = [profLoading EXCEPT ![s] = TRUE]
  /\ tasks' = [tasks EXCEPT ![NewSlot] =
       [kind |-> "save", s |-> s, pc |-> "updateProfile",
        displayName |-> displayName[s], points |-> points[s],
        stored |-> dbPoints]]
  /\ alert' = NoAlert
  /\ UNCHANGED <<dbVars, now, addrUi, flowUi, points, displayName,
                 isEditing, fetchPc>>

\* handleProfileUpdate resumed from updateProfile
SaveUpdateProfile(t) ==
  /\ tasks[t].kind = "save" /\ tasks[t].pc = "updateProfile"
  /\ \E ok \in BOOLEAN :
       IF ok
       THEN /\ tasks' = [tasks EXCEPT ![t].pc = "setDoc-user"]
            /\ points' = LocalWrite(tasks[t].s, tasks[t].points)
            /\ displayName' =
                 [displayName EXCEPT ![tasks[t].s] = tasks[t].displayName]
            /\ alert' = NoAlert
            /\ UNCHANGED profLoading
       ELSE /\ tasks' = [tasks EXCEPT ![t] = Done]
            /\ alert' = Shown("Error", tasks[t].s, "SaveUpdateProfile")
            /\ profLoading' = [profLoading EXCEPT ![tasks[t].s] = FALSE]
            /\ UNCHANGED <<points, displayName>>
  /\ UNCHANGED <<dbVars, now, addrUi, flowUi, isEditing, fetchPc>>

\* handleProfileUpdate resumed from setDoc(..., {merge: true}), which
\* creates the record when it is missing
SaveSetDoc(t) ==
  /\ tasks[t].kind = "save" /\ tasks[t].pc = "setDoc-user"
  /\ tasks' = [tasks EXCEPT ![t] = Done]
  /\ profLoading' = [profLoading EXCEPT ![tasks[t].s] = FALSE]
  /\ \E ok \in BOOLEAN :
       IF ok
       THEN /\ dbExists' = TRUE
            /\ dbDisplayName' = tasks[t].displayName
            /\ dbPoints' = tasks[t].points
            /\ isEditing' = [isEditing EXCEPT ![tasks[t].s] = FALSE]
            /\ alert' = Shown("Profile Updated", tasks[t].s, "SaveSetDoc")
            /\ UNCHANGED <<points, displayName>>
       ELSE /\ alert' = Shown("Error", tasks[t].s, "SaveSetDoc")
            /\ IF dbExists
               THEN /\ points' = LocalWrite(tasks[t].s, dbPoints)
                    /\ displayName' =
                         [displayName EXCEPT ![tasks[t].s] = dbDisplayName]
               ELSE UNCHANGED <<points, displayName>>
            /\ UNCHANGED <<dbExists, dbDisplayName, dbPoints, isEditing>>
  /\ UNCHANGED <<dbAddresses, orders, payRequests, now, addrUi, flowUi,
                 fetchPc>>

\* handlePurchasePoints(5000) up to its updateDoc
handlePurchasePoints(s) ==
  /\ PurchaseAmount >= PointsPerPeso
  /\ FreeSlots # {}
  /\ tasks' = [tasks EXCEPT ![NewSlot] =
       [kind |-> "purchase", s |-> s, pc |-> "updateDoc",
        newPoints |-> points[s] + (PurchaseAmount \div PointsPerPeso)]]
  /\ points' = LocalWrite(s, points[s] + (PurchaseAmount \div PointsPerPeso))
  /\ alert' = NoAlert
  /\ UNCHANGED <<dbVars, now, addrUi, flowUi, displayName, isEditing,
                 profLoading, fetchPc>>

\* the floor test of a redemption, comparing with 0 instead of 5
NotEnoughPointsMut(p) == p < 0

\* points < 5
NotEnoughPoints(p) == p < RedeemCost

\* handleRedeemPoints up to its updateDoc; the task also notes the stored
\* balance at the time of the press, which no step reads
handleRedeemPoints(s) ==
  /\ IF NotEnoughPoints(points[s])
     THEN /\ alert' = Shown("Not Enough Points", s, "handleRedeemPoints")
          /\ UNCHANGED <<tasks, points>>
     ELSE /\ FreeSlots # {}
          /\ tasks' = [tasks EXCEPT ![NewSlot] =
               [kind |-> "redeem", s |-> s, pc |-> "updateDoc",
                newPoints |-> points[s] - RedeemCost, stored |-> dbPoints]]
          /\ points' = LocalWrite(s, points[s] - RedeemCost)
          /\ alert' = NoAlert
  /\ UNCHANGED <<dbVars, now, addrUi, flowUi, displayName, isEditing,
                 profLoading, fetchPc>>

\* the write as an atomic increment of the stored balance
PurchaseUpdateDocMut(t) ==
  /\ tasks[t].kind = "purchase" /\ tasks[t].pc = "updateDoc"
  /\ tasks' = [tasks EXCEPT ![t] = Done]
  /\ \E ok \in BOOLEAN :
       IF ok /\ dbExists
       THEN /\ dbPoints' = dbPoints + (PurchaseAmount \div PointsPerPeso)
            /\ alert' = Shown("Points Added", tasks[t].s, "PurchaseUpdateDoc")
            /\ UNCHANGED points
       ELSE /\ alert' = Shown("Error", tasks[t].s, "PurchaseUpdateDoc")
            /\ points' = LocalWrite(tasks[t].s, dbPoints)
            /\ UNCHANGED dbPoints
  /\ UNCHANGED <<dbExists, dbDisplayName, dbAddresses, orders, payRequests,
                 now, addrUi, flowUi, displayName, isEditing, profLoading,
                 fetchPc>>

\* handlePurchasePoints resumed from updateDoc
PurchaseUpdateDoc(t) ==
  /\ tasks[t].kind = "purchase" /\ tasks[t].pc = "updateDoc"
  /\ tasks' = [tasks EXCEPT ![t] = Done]
  /\ \E ok \in BOOLEAN :
       IF ok /\ dbExists
       THEN /\ dbPoints' = tasks[t].newPoints
            /\ alert' = Shown("Points Added", tasks[t].s, "PurchaseUpdateDoc")
            /\ UNCHANGED points
       ELSE /\ alert' = Shown("Error", tasks[t].s, "PurchaseUpdateDoc")
            /\ points' = LocalWrite(tasks[t].s, dbPoints)
            /\ UNCHANGED dbPoints
  /\ UNCHANGED <<dbExists, dbDisplayName, dbAddresses, orders, payRequests,
                 now, addrUi, flowUi, displayName, isEditing, profLoading,
                 fetchPc>>

\* handleRedeemPoints resumed from updateDoc
RedeemUpdateDoc(t) ==
  /\ tasks[t].kind = "redeem" /\ tasks[t].pc = "updateDoc"
  /\ tasks' = [tasks EXCEPT ![t] = Done]
  /\ \E ok \in BOOLEAN :
       IF ok /\ dbExists
       THEN /\ dbPoints' = tasks[t].newPoints
            /\ alert' = Shown("Points Redeemed", tasks[t].s, "RedeemUpdateDoc")
            /\ UNCHANGED points
       ELSE /\ alert' = Shown("Error", tasks[t].s, "RedeemUpdateDoc")
            /\ points' = LocalWrite(tasks[t].s, dbPoints)
            /\ UNCHANGED dbPoints
  /\ UNCHANGED <<dbExists, dbDisplayName, dbAddresses, orders, payRequests,
                 now, addrUi, flowUi, displayName, isEditing, profLoading,
                 fetchPc>>

\* ----------------------------------------------------------- order flow
\* one session from the Address step to the placed order
InitOrder ==
  /\ InitBase
  /\ dbExists = TRUE
  /\ dbDisplayName \in {"", "u"}
  /\ dbPoints \in {0, 3}
  /\ dbAddresses \in {<<AddrA>>, <<AddrA, AddrB>>}
  /\ cartItems \in [Sessions -> Carts]
  /\ cartItems[2] = << >>

NextOrder ==
  \/ \E s \in {1} :
       \/ FetchAddresses(s)
       \/ SelectAddress(s)
       \/ handleRemoveAddress(s)
       \/ DeliverToThisAddress(s)
       \/ SetDeliveryMethod(s)
       \/ NextButton(s)
       \/ ConfirmPaymentCancel(s)
       \/ ConfirmPaymentYes(s)
       \/ handlePlaceOrder(s)
       \/ ConfirmOrderCancel(s)
       \/ ConfirmOrderOK(s)
  \/ \E t \in TaskIds :
       \/ RemoveGetDoc(t)
       \/ RemoveUpdateDoc(t)
       \/ PlaceGetUser(t)
       \/ PlaceSetDoc(t)
       \/ PlaceGetPoints(t)
       \/ PlaceUpdatePoints(t)

SpecOrder == InitOrder /\ [][NextOrder]_vars

\* the placement alone, from the Address step to the placed order, with
\* every remote call of a placement settling eventually
NextPlace ==
  \/ \E s \in {1} :
       \/ FetchAddresses(s)
       \/ DeliverToThisAddress(s)
       \/ NextButton(s)
       \/ handlePlaceOrder(s)
       \/ ConfirmOrderCancel(s)
       \/ ConfirmOrderOK(s)
  \/ \E t \in TaskIds :
       \/ PlaceGetUser(t)
       \/ PlaceSetDoc(t)
       \/ PlaceGetPoints(t)
       \/ PlaceUpdatePoints(t)

RemoteCallsSettle ==
  \A t \in TaskIds :
    /\ WF_vars(PlaceGetUser(t))
    /\ WF_vars(PlaceSetDoc(t))
    /\ WF_vars(PlaceGetPoints(t))
    /\ WF_vars(PlaceUpdatePoints(t))

SpecPlace == InitOrder /\ [][NextPlace]_vars /\ RemoteCallsSettle

\* ---------------------------------------------------------- points flow
\* the profile screens of two sessions, and the checkout of the first
InitPoints ==
  /\ InitBase
  /\ dbExists = TRUE
  /\ dbDisplayName = "u"
  /\ dbPoints \in 0 .. MaxPoints
  /\ dbAddresses = <<AddrA>>
  /\ cartItems \in [Sessions -> Carts]
  /\ cartItems[2] = << >>
  /\ cartItems[1] # << >> /\ cartItems[1][1].id = 2
     /\ cartItems[1][1].quantity \in {1, 2}

\* session s has a handler in flight
Busy(s) == \E t \in TaskIds : tasks[t].kind \notin {"free", "done"} /\ tasks[t].s = s

\* Each session starts its next operation on the user record once its
\* previous one has settled; the operations of the two sessions overlap.
NextPoints ==
  \/ \E s \in Sessions :
       \/ Snapshot(s)
       \/ EditProfile(s)
       \/ CancelEdit(s)
       \/ ~Busy(s) /\ handleProfileUpdate(s)
       \/ ~Busy(s) /\ handlePurchasePoints(s)
       \/ ~Busy(s) /\ handleRedeemPoints(s)
  \/ \E s \in {1} :
       \/ FetchAddresses(s)
       \/ DeliverToThisAddress(s)
       \/ NextButton(s)
       \/ handlePlaceOrder(s)
       \/ ~Busy(s) /\ ConfirmOrderOK(s)
  \/ \E t \in TaskIds :
       \/ SaveUpdateProfile(t)
       \/ SaveSetDoc(t)
       \/ PurchaseUpdateDoc(t)
       \/ RedeemUpdateDoc(t)
       \/ PlaceGetUser(t)
       \/ PlaceSetDoc(t)
       \/ PlaceGetPoints(t)
       \/ PlaceUpdatePoints(t)

SpecPoints == InitPoints /\ [][NextPoints]_vars

\* session 1 on the profile screen, editing and saving the profile next to
\* purchases and redemptions, while session 2 of the same account purchases
\* and redeems
NextProfile ==
  \/ \E s \in {1} :
       \/ EditProfile(s)
       \/ CancelEdit(s)
       \/ ChangeDisplayName(s)
       \/ handleProfileUpdate(s)
  \/ \E s \in Sessions :
       \/ Snapshot(s)
       \/ ~Busy(s) /\ handlePurchasePoints(s)
       \/ ~Busy(s) /\ handleRedeemPoints(s)
  \/ \E t \in TaskIds :
       \/ SaveUpdateProfile(t)
       \/ SaveSetDoc(t)
       \/ PurchaseUpdateDoc(t)
       \/ RedeemUpdateDoc(t)

SpecProfile == InitPoints /\ [][NextProfile]_vars

\* ------------------------------------------------------------------ claims
\* the total of a cart as the specification defines it: the sum over the
\* items of catalog price times quantity, in centavos
RECURSIVE SumCents(_)
SumCents(cart) ==
  IF cart = << >> THEN 0
  ELSE getProductById(Head(cart).id).price.cents * Head(cart).quantity
       + SumCents(Tail(cart))

InCatalog(cart) == \A i \in 1 .. Len(cart) : cart[i].id \in CatalogIds

\* task t settles in this step
Settles(t, kind) == tasks[t].kind = kind /\ tasks'[t].kind = "done"

\* C1: a rejected redemption ('Not Enough Points') writes nothing and starts
\* no remote call, and a redemption whose write succeeds leaves the stored
\* balance exactly 5 lower than it was before the operation (when the
\* button was pressed, or just before the write).
C1_RedeemLowersByFive ==
  [][ /\ alert'.title = "Not Enough Points" => UNCHANGED <<dbVars, tasks>>
      /\ \A t \in TaskIds :
           (Settles(t, "redeem") /\ alert'.title = "Points Redeemed")
             => \/ dbPoints' = tasks[t].stored - RedeemCost
                \/ dbPoints' = dbPoints - RedeemCost ]_vars

\* C2: the stored balance and every mirrored balance are integers >= 0.
C2_PointsNonNegative ==
  /\ dbPoints \in Nat
  /\ \A s \in Sessions : points[s] \in Nat

C2_Witness == alert.title = "Points Redeemed" /\ dbPoints = 0

\* C3: from a Review state with no selected address or an empty cart, no
\* step opens the Confirm Order prompt, and the step that shows the
\* rejection starts no remote call and leaves the store, the cart, step,
\* selection, delivery method and loading flag as they are.
C3_RejectedBeforeRemote ==
  [][ \A s \in Sessions :
        (step[s] = 3 /\ (selectedAddress[s] = Null \/ cartItems[s] = << >>))
          => /\ prompt'[s].name = "Confirm Order"
                  => prompt[s].name = "Confirm Order"
             /\ (alert'.op = "handlePlaceOrder" /\ alert'.s = s)
                  => /\ alert'.title \in {"Address Missing", "Cart Empty"}
                     /\ UNCHANGED <<dbVars, tasks, flowUi, selectedAddress>> ]_vars

C3_Witness ==
  /\ alert = Shown("Address Missing", 1, "handlePlaceOrder")
  /\ cartItems[1] # << >>

\* C4: the ids of the stored address list and of every local address list
\* are pairwise distinct.
C4_DistinctIds ==
  /\ Distinct(dbAddresses)
  /\ \A s \in Sessions : Distinct(addresses[s])

\* C5: when a removal of id succeeds while id is the selected address, the
\* selection becomes none, the local and stored lists no longer hold id and
\* the other entries of the local list keep their order.
C5_RemoveClearsSelection ==
  [][ \A t \in TaskIds :
        (/\ Settles(t, "remove")
         /\ alert'.title = "Address Removed"
         /\ selectedAddress[tasks[t].s] = tasks[t].addressId)
          => /\ selectedAddress'[tasks[t].s] = Null
             /\ tasks[t].addressId \notin Ids(addresses'[tasks[t].s])
             /\ tasks[t].addressId \notin Ids(dbAddresses')
             /\ addresses'[tasks[t].s] =
                  Filter(addresses[tasks[t].s], tasks[t].addressId) ]_vars

\* C6: a successful placement of a cart of total T earns floor(T / 5000)
\* points: when positive the stored balance rises by exactly that amount,
\* when 0 the points field is neither read nor written.
C6_PointsEarned ==
  [][ \A t \in TaskIds :
        (/\ Settles(t, "place")
         /\ alert'.title = "Order Successful"
         /\ InCatalog(tasks[t].cartItems))
          => LET earned == SumCents(tasks[t].cartItems)
                             \div (PointsPerPeso * CentsPerPeso)
             IN IF earned > 0
                THEN dbPoints' = dbPoints + earned
                ELSE tasks[t].pc = "setDoc" /\ dbPoints' = dbPoints ]_vars

\* C7: the total shown in Review and stored in the order record is the sum
\* over the cart of catalog price times quantity, with two decimals.
C7_TotalIsSum ==
  /\ \A s \in Sessions :
       (step[s] = 3 /\ InCatalog(cartItems[s]))
         => calculateTotalPrice(cartItems[s]) = Fixed(SumCents(cartItems[s]))
  /\ \A o \in orders :
       InCatalog(o.items) => o.total = Fixed(SumCents(o.items))

\* a placement ends in the catch block of its try block
PlacementFails(t) ==
  /\ Settles(t, "place")
  /\ tasks[t].pc \in {"setDoc", "getPoints", "updatePoints"}
  /\ alert'.title # "Order Successful"

\* what every failed placement leaves behind
FailureLeaves(t) ==
  /\ alert' = Shown("Error", tasks[t].s, alert'.op)
  /\ cartItems' = cartItems
  /\ step' = step
  /\ selectedAddress' = selectedAddress
  /\ deliveryMethod' = deliveryMethod
  /\ loading'[tasks[t].s] = FALSE
  /\ navigated' = navigated

C9_LookupFailureEnds ==
  [][ \A t \in TaskIds :
        (tasks[t].kind = "place" /\ tasks[t].pc = "getUser"
           /\ tasks'[t] # tasks[t]
           /\ (~dbExists \/ dbDisplayName = "" \/ tasks'[t].kind = "done"))
          => /\ tasks'[t].kind = "done"
             /\ alert' = Shown("Error", tasks[t].s, "PlaceGetUser")
             /\ UNCHANGED <<orders, dbPoints, payRequests, cartItems>>
             /\ loading'[tasks[t].s] = FALSE ]_vars

C9_Witness ==
  /\ alert = Shown("Error", 1, "PlaceGetUser")
  /\ dbDisplayName = ""
  /\ orders = {}
  /\ cartItems[1] # << >>

\* C10: in the Delivery step the payment prompt opens for e-wallet only, and
\* confirming it moves the flow to Review.
C10_NextReachesReview ==
  [][ \A s \in Sessions :
        /\ (prompt[s].name = "none" /\ prompt'[s].name = "Confirm Payment")
             => deliveryMethod[s] = EWallet
        /\ (alert'.op = "ConfirmPaymentYes" /\ alert'.s = s) => step'[s] = 3 ]_vars

\* C11: the step starts at Address (1), is always 1, 2 or 3, and changes
\* only from 1 to 2 and from 2 to 3.
C11_StepOrder ==
  /\ \A s \in Sessions : step[s] = 1
  /\ [][ \A s \in Sessions :
            /\ step'[s] \in {1, 2, 3}
            /\ step'[s] # step[s]
                 => (step[s] = 1 /\ step'[s] = 2) \/ (step[s] = 2 /\ step'[s] = 3)
       ]_vars

C11_Witness ==
  /\ step[1] = 3
  /\ alert = Shown("Address Removed", 1, "RemoveUpdateDoc")

\* C12: the step leaves Address only when the selection is the id of an
\* entry of the displayed list; with no selection it stays at Address.
C12_DeliverNeedsSelection ==
  [][ \A s \in Sessions :
        /\ (step[s] = 1 /\ step'[s] # 1)
             => /\ selectedAddress[s] # Null
                /\ selectedAddress[s] \in Ids(addresses[s])
        /\ (step[s] = 1 /\ selectedAddress[s] = Null) => step'[s] = 1 ]_vars

\* the selection was cleared by a removal and the flow is still at Address
C12_Witness ==
  /\ step[1] = 1
  /\ selectedAddress[1] = Null
  /\ alert = Shown("Address Removed", 1, "RemoveUpdateDoc")

\* C13: while a placement of the session is in flight (loading is true) no
\* second placement starts, and the cart of a session yields at most one
\* order record.
C13_OnePlacementAtATime ==
  [][ /\ \A s \in Sessions :
           loading[s]
             => \A t \in TaskIds :
                  (tasks'[t].kind = "place" /\ tasks'[t].s = s)
                    => tasks[t].kind = "place"
      /\ Cardinality(orders') <= 1 ]_vars

\* the entries of a list
Entries(list) == {list[i] : i \in 1 .. Len(list)}

\* C14: an add or removal writes back the whole list built from its own
\* read: when it succeeds, every stored entry that its read did not see
\* (stored by another operation between its read and its write) is gone
\* from the stored list, although that operation reported success.
C14_WriteDropsUnseen ==
  [][ \A t \in TaskIds :
        (/\ Settles(t, "add") \/ Settles(t, "remove")
         /\ alert'.title \in {"Address Added", "Address Removed"})
          => \A e \in Entries(dbAddresses) :
               e \notin Entries(tasks[t].updated)
                 => e \notin Entries(dbAddresses') ]_vars

\* both sessions have added an address with success and the stored list
\* holds only the entry of session 2
C14_Witness ==
  /\ alert = Shown("Address Added", 2, "AddUpdateDoc")
  /\ \E e \in Entries(addresses[1]) :
       /\ e.id \notin {AddrA.id, AddrB.id}
       /\ e \notin Entries(dbAddresses)
  /\ \E e \in Entries(addresses[2]) :
       /\ e \in Entries(dbAddresses)
       /\ e \notin Entries(addresses[1])

\* C15: a points write stores a value computed from the balance its
\* operation read earlier (the mirror for purchase and redemption, the
\* handler's own read for a placement): the stored balance changes by the
\* operation's amount exactly when no other write has changed it since that
\* read, so an interleaved write of another operation is lost.
C15_PointsWriteIsBlind ==
  [][ \A t \in TaskIds :
        /\ (Settles(t, "purchase") /\ alert'.title = "Points Added")
             => ((dbPoints' = dbPoints + (PurchaseAmount \div PointsPerPeso))
                   <=> (tasks[t].newPoints
                          = dbPoints + (PurchaseAmount \div PointsPerPeso)))
        /\ (Settles(t, "redeem") /\ alert'.title = "Points Redeemed")
             => ((dbPoints' = dbPoints - RedeemCost)
                   <=> (tasks[t].newPoints = dbPoints - RedeemCost))
        /\ (Settles(t, "place") /\ tasks[t].pc = "updatePoints"
               /\ alert'.title = "Order Successful")
             => ((dbPoints' = dbPoints + Whole(tasks[t].pointsToAdd))
                   <=> (tasks[t].currentPoints = dbPoints)) ]_vars

\* the redemption of session 1 has just been stored while a purchase of
\* session 2, computed from the balance before it, is about to be written
C15_Witness ==
  /\ alert = Shown("Points Redeemed", 1, "RedeemUpdateDoc")
  /\ \E t \in TaskIds :
       /\ tasks[t].kind = "purchase" /\ tasks[t].s = 2
       /\ tasks[t].newPoints
            = dbPoints + RedeemCost + (PurchaseAmount \div PointsPerPeso)

\* C16: a snapshot delivered to a session replaces its display name and
\* points by the stored values and leaves isEditing as it is, whether or
\* not the profile is being edited: an unsaved display name is discarded.
\* (A step that changes the mirrored points and starts or settles no
\* handler is a snapshot delivery.)
C16_SnapshotOverwritesEdit ==
  [][ \A s \in Sessions :
        (tasks' = tasks /\ points'[s] # points[s])
          => /\ points'[s] = dbPoints
             /\ displayName'[s] = dbDisplayName
             /\ isEditing'[s] = isEditing[s] ]_vars

\* session 1 is editing with an unsaved display name when session 2 has
\* just stored a purchase: the snapshot of that write is due at session 1
C16_Witness ==
  /\ isEditing[1]
  /\ displayName[1] \in Names /\ displayName[1] # dbDisplayName
  /\ alert = Shown("Points Added", 2, "PurchaseUpdateDoc")
  /\ points[1] # dbPoints
  /\ ENABLED Snapshot(1)

\* C17: the form opened by '+ Add Address' (the form appears, the text and
\* the edited id are as they were, and they are not what the Edit button of
\* an entry would have set) is an add form; a submission of an add
\* form that succeeds appends exactly one entry, with an id no stored entry
\* has, to the stored and local lists and leaves the other entries alone;
\* a submission of empty text is rejected with no remote call.
C17_AddAppendsOne ==
  [][ \A s \in Sessions :
        /\ (/\ ~showAddAddress[s] /\ showAddAddress'[s]
            /\ editAddressId'[s] = editAddressId[s]
            /\ newAddress'[s] = newAddress[s]
            /\ [id |-> editAddressId[s], address |-> newAddress[s]]
                 \notin Entries(addresses[s]))
             => editAddressId'[s] = Null
        /\ \A t \in TaskIds :
             (/\ Settles(t, "add") /\ tasks[t].s = s
              /\ tasks[t].editAddressId = Null
              /\ alert'.title = "Address Added")
               => \E id \in {ToString(c) : c \in FirstClock .. MaxClock} :
                    /\ id \notin Ids(dbAddresses)
                    /\ dbAddresses' = dbAddresses
                         \o <<[id |-> id, address |-> tasks[t].newAddress]>>
                    /\ addresses'[s] = dbAddresses'
        /\ (alert'.title = "Address Required" /\ alert'.s = s)
             => UNCHANGED <<dbVars, tasks, addresses>> ]_vars

\* C18: in Delivery and Review the selected address is not none and is the
\* id of an entry of the local address list.
C18_SelectionDefinedAfterAddress ==
  \A s \in Sessions :
    step[s] >= 2
      => /\ selectedAddress[s] # Null
         /\ selectedAddress[s] \in Ids(addresses[s])

\* C19: a profile save that succeeds leaves the stored points balance as it
\* is: the points value it writes is the one stored at the time of the
\* write.  (Stated for the saves pressed while the mirrored balance was the
\* stored one.)
C19_SaveKeepsPoints ==
  [][ \A t \in TaskIds :
        (/\ Settles(t, "save") /\ alert'.title = "Profile Updated"
         /\ tasks[t].points = tasks[t].stored)
          => dbPoints' = dbPoints ]_vars

\* C20: every confirmed placement ends, whichever of its remote calls
\* succeeds or fails, and the step that ends it sets loading to false, so
\* a loading flag that is true becomes false; the cart of a session is
\* emptied only by the step that ends a placement whose order record has
\* been written.
C20_PlacementEnds ==
  /\ \A t \in TaskIds : (tasks[t].kind = "place") ~> (tasks[t].kind = "done")
  /\ \A s \in Sessions : loading[s] ~> ~loading[s]
  /\ [][ \A t \in TaskIds :
            Settles(t, "place") => ~loading'[tasks[t].s] ]_vars
  /\ [][ \A s \in Sessions :
            (cartItems[s] # << >> /\ cartItems'[s] = << >>)
              => \E t \in TaskIds :
                   /\ Settles(t, "place") /\ tasks[t].s = s
                   /\ \E o \in orders' : o.id = t ]_vars

\* a placement has ended with success: order written, cart cleared,
\* loading reset
C20_Witness ==
  /\ alert.title = "Order Successful"
  /\ orders # {}
  /\ cartItems[1] = << >>
  /\ ~loading[1]

====
